---- MODULE Spec2Model ----
(***************************************************************************)
(* The prompt cache of the AI code assistant (src/final_project/src/       *)
(* main.rs): the bounded FIFO Cache (add_entry, the front-to-back find of  *)
(* the task handlers), its persistence (load_cache, save_cache) and the    *)
(* main loop that uses them.                                               *)
(*                                                                         *)
(* Two specifications share the variables:                                 *)
(*   SpecCache  the Cache type on its own: starting from an empty cache,   *)
(*              any sequence of add_entry and find calls;                  *)
(*   Spec       the process: main() from start to exit, run after run,     *)
(*              over the cache file left on disk.                          *)
(***************************************************************************)
EXTENDS Naturals, Sequences, FiniteSets, TLC

VARIABLES
    pc,         \* where the process is: "api" (SpecCache), or a place of main()
    entries,    \* Cache.entries: the sequence of CacheEntry, oldest first
    file,       \* what is on disk at "api_cache.json"
    language,   \* main's `language`, as the user typed it
    out,        \* what the last call returned or printed
    hist,       \* history: every entry passed to add_entry since the cache was created
    loadedFrom, \* history: the file as load_cache found it in this run
    inputs,     \* SpecCache: the (prompt, response) pairs the calls draw from
    saved,      \* history: Some(entries) that the last successful save_cache wrote
    count,      \* history: calls made in this run, of load_cache, save_cache,
                \*   send_api_request and find
    runs,       \* number of process runs started
    ops         \* number of menu choices made so far, over all runs

vars == <<pc, entries, file, language, out, hist, loadedFrom, inputs, saved, count, runs, ops>>

(***************************************************************************)
(* Program constant and the bounds of the model.                           *)
(***************************************************************************)
CACHE_LIMIT == 10

\* SpecCache: add_entry calls per behaviour (CACHE_LIMIT + 2: two evictions).
MaxInserts == 12
\* Spec: process runs per behaviour, and menu choices per behaviour (all runs).
MaxRuns == 2
MaxOps == 2

(***************************************************************************)
(* Option<T>: None is the empty sequence, Some(v) is <<v>>.                *)
(***************************************************************************)
None == <<>>
Some(v) == <<v>>
IsSome(o) == Len(o) = 1
Unwrap(o) == o[1]

Min(a, b) == IF a <= b THEN a ELSE b

(***************************************************************************)
(* struct CacheEntry { prompt, response }                                  *)
(***************************************************************************)
CacheEntry(prompt, response) == [prompt |-> prompt, response |-> response]

(***************************************************************************)
(* Cache::add_entry: at CACHE_LIMIT entries or more remove position 0,     *)
(* then push the new entry at the end.                                     *)
(***************************************************************************)
\* add_entry with `>` for `>=`
add_entry_off_by_one(es, prompt, response) ==
    LET kept == IF Len(es) > CACHE_LIMIT THEN Tail(es) ELSE es
    IN  Append(kept, CacheEntry(prompt, response))

\* add_entry removing the last entry instead of the first
add_entry_evict_newest(es, prompt, response) ==
    LET kept == IF Len(es) >= CACHE_LIMIT THEN SubSeq(es, 1, Len(es) - 1) ELSE es
    IN  Append(kept, CacheEntry(prompt, response))

add_entry(es, prompt, response) ==
    LET kept == IF Len(es) >= CACHE_LIMIT THEN Tail(es) ELSE es
    IN  Append(kept, CacheEntry(prompt, response))

(***************************************************************************)
(* cache.entries.iter().find(|entry| entry.prompt == prompt): the first    *)
(* entry, scanning from the front, whose prompt is the same string.        *)
(***************************************************************************)
LowerChar(c) ==
    CASE c = "A" -> "a" [] c = "B" -> "b" [] c = "C" -> "c" [] c = "D" -> "d"
      [] c = "E" -> "e" [] c = "F" -> "f" [] c = "G" -> "g" [] c = "H" -> "h"
      [] c = "I" -> "i" [] c = "J" -> "j" [] c = "K" -> "k" [] c = "L" -> "l"
      [] c = "M" -> "m" [] c = "N" -> "n" [] c = "O" -> "o" [] c = "P" -> "p"
      [] c = "Q" -> "q" [] c = "R" -> "r" [] c = "S" -> "s" [] c = "T" -> "t"
      [] c = "U" -> "u" [] c = "V" -> "v" [] c = "W" -> "w" [] c = "X" -> "x"
      [] c = "Y" -> "y" [] c = "Z" -> "z" [] OTHER -> c

RECURSIVE ToAsciiLower(_)
ToAsciiLower(s) ==
    IF Len(s) = 0 THEN ""
    ELSE LowerChar(SubSeq(s, 1, 1)) \o ToAsciiLower(SubSeq(s, 2, Len(s)))

\* str::eq_ignore_ascii_case
eq_ignore_ascii_case(a, b) == ToAsciiLower(a) = ToAsciiLower(b)

\* find comparing prompts without regard to case
find_ignore_case(es, prompt) ==
    LET hits == {i \in 1..Len(es) : eq_ignore_ascii_case(es[i].prompt, prompt)}
    IN  IF hits = {} THEN None
        ELSE Some(es[CHOOSE i \in hits : \A j \in hits : i <= j])

\* find scanning from the back (rfind): the newest entry with the prompt
find_last(es, prompt) ==
    LET hits == {i \in 1..Len(es) : es[i].prompt = prompt}
    IN  IF hits = {} THEN None
        ELSE Some(es[CHOOSE i \in hits : \A j \in hits : i >= j])

find(es, prompt) ==
    LET hits == {i \in 1..Len(es) : es[i].prompt = prompt}
    IN  IF hits = {} THEN None
        ELSE Some(es[CHOOSE i \in hits : \A j \in hits : i <= j])

(***************************************************************************)
(* The cache file.  A file is absent, unreadable (it exists and its bytes   *)
(* are not UTF-8, so read_to_string fails), or text.  Text is held as the  *)
(* JSON value it spells: a string, an array of values, an object (its      *)
(* members in the order written, keys may repeat), or JInvalid for text    *)
(* that is not JSON.                                                       *)
(***************************************************************************)
JStr(s) == <<"str", s>>
JArr(items) == <<"arr", items>>
JObj(members) == <<"obj", members>>
JInvalid == <<"invalid">>
Tag(j) == j[1]

AbsentFile == [kind |-> "absent", json |-> JInvalid]
UnreadableFile == [kind |-> "unreadable", json |-> JInvalid]
TextFile(j) == [kind |-> "text", json |-> j]
NotLoaded == [kind |-> "notloaded", json |-> JInvalid]

(***************************************************************************)
(* serde_json::from_str::<Cache>, as #[derive(Deserialize)] reads it.  A   *)
(* struct is read from an object (fields by name, unknown fields ignored,  *)
(* a repeated or missing field is an error) or from an array (fields by    *)
(* position, exactly as many elements as fields).  A String is read from a *)
(* JSON string, a Vec from an array.  None stands for Err.                 *)
(***************************************************************************)
Field(j, name) == {i \in 1..Len(j[2]) : j[2][i][1] = name}
TheOne(S) == CHOOSE x \in S : TRUE

DeCacheEntry(j) ==
    IF Tag(j) = "obj"
    THEN LET P == Field(j, "prompt")
             R == Field(j, "response")
         IN  IF /\ Cardinality(P) = 1
                /\ Cardinality(R) = 1
                /\ \A i \in P \cup R : Tag(j[2][i][2]) = "str"
             THEN Some(CacheEntry(j[2][TheOne(P)][2][2], j[2][TheOne(R)][2][2]))
             ELSE None
    ELSE IF Tag(j) = "arr"
    THEN IF Len(j[2]) = 2 /\ \A i \in 1..2 : Tag(j[2][i]) = "str"
         THEN Some(CacheEntry(j[2][1][2], j[2][2][2]))
         ELSE None
    ELSE None

DeEntries(j) ==
    IF Tag(j) = "arr" /\ \A i \in 1..Len(j[2]) : IsSome(DeCacheEntry(j[2][i]))
    THEN Some([i \in 1..Len(j[2]) |-> Unwrap(DeCacheEntry(j[2][i]))])
    ELSE None

DeCache(j) ==
    IF Tag(j) = "obj"
    THEN LET E == Field(j, "entries")
         IN  IF Cardinality(E) = 1 THEN DeEntries(j[2][TheOne(E)][2]) ELSE None
    ELSE IF Tag(j) = "arr"
    THEN IF Len(j[2]) = 1 THEN DeEntries(j[2][1]) ELSE None
    ELSE None

(***************************************************************************)
(* serde_json::from_str::<HashMap<String, String>>: an object all of whose *)
(* values are strings; of a repeated key the last value stays.  The map is *)
(* the set of its <<key, value>> pairs.                                    *)
(***************************************************************************)
DeHashMap(j) ==
    IF Tag(j) = "obj" /\ \A i \in 1..Len(j[2]) : Tag(j[2][i][2]) = "str"
    THEN Some({<<j[2][i][1], j[2][i][2][2]>> :
                 i \in {k \in 1..Len(j[2]) :
                          \A m \in (k + 1)..Len(j[2]) : j[2][m][1] # j[2][k][1]}})
    ELSE None

\* old_cache.into_iter(): the pairs of the map, each once, in an order the
\* hasher decides.
IntoIter(map) ==
    {s \in [1..Cardinality(map) -> map] :
        \A i, k \in 1..Cardinality(map) : i # k => s[i] # s[k]}

(***************************************************************************)
(* Result<Cache, _> of load_cache.                                         *)
(***************************************************************************)
Ok(es) == [ok |-> TRUE, cache |-> es]
Err == [ok |-> FALSE, cache |-> <<>>]

(***************************************************************************)
(* load_cache: every result it can return on file f.  A file that cannot   *)
(* be read (absent or unreadable) gives an empty cache; text that reads as *)
(* a Cache gives that cache; otherwise text that reads as a HashMap gives  *)
(* its pairs in iteration order; otherwise the parse error.                *)
(***************************************************************************)
\* load_cache returning the read error instead of an empty cache
load_cache_absent_is_error(f) ==
    IF f.kind # "text" THEN {Err}
    ELSE IF IsSome(DeCache(f.json)) THEN {Ok(Unwrap(DeCache(f.json)))}
    ELSE IF IsSome(DeHashMap(f.json))
    THEN {Ok([i \in 1..Len(s) |-> CacheEntry(s[i][1], s[i][2])]) :
             s \in IntoIter(Unwrap(DeHashMap(f.json)))}
    ELSE {Err}

\* load_cache without the fallback to the old HashMap format
load_cache_no_legacy(f) ==
    IF f.kind # "text" THEN {Ok(<<>>)}
    ELSE IF IsSome(DeCache(f.json)) THEN {Ok(Unwrap(DeCache(f.json)))}
    ELSE {Err}

\* load_cache building each entry from (response, prompt) of the old map
load_cache_legacy_swapped(f) ==
    IF f.kind # "text" THEN {Ok(<<>>)}
    ELSE IF IsSome(DeCache(f.json)) THEN {Ok(Unwrap(DeCache(f.json)))}
    ELSE IF IsSome(DeHashMap(f.json))
    THEN {Ok([i \in 1..Len(s) |-> CacheEntry(s[i][2], s[i][1])]) :
             s \in IntoIter(Unwrap(DeHashMap(f.json)))}
    ELSE {Err}

load_cache(f) ==
    IF f.kind # "text" THEN {Ok(<<>>)}
    ELSE IF IsSome(DeCache(f.json)) THEN {Ok(Unwrap(DeCache(f.json)))}
    ELSE IF IsSome(DeHashMap(f.json))
    THEN {Ok([i \in 1..Len(s) |-> CacheEntry(s[i][1], s[i][2])]) :
             s \in IntoIter(Unwrap(DeHashMap(f.json)))}
    ELSE {Err}

(***************************************************************************)
(* serde_json::to_string_pretty(cache): the object {"entries": [...]} with *)
(* one {"prompt": ..., "response": ...} object per entry, in order.        *)
(***************************************************************************)
\* a serializer writing the old shape, a flat object prompt -> response
to_string_pretty_as_map(es) ==
    JObj([i \in 1..Len(es) |-> <<es[i].prompt, JStr(es[i].response)>>])

to_string_pretty(es) ==
    JObj(<< <<"entries",
              JArr([i \in 1..Len(es) |->
                      JObj(<< <<"prompt", JStr(es[i].prompt)>>,
                              <<"response", JStr(es[i].response)>> >>)])>> >>)

\* No call made yet.
NoCalls == [loads |-> 0, saves |-> 0, calls |-> 0, lookups |-> 0]

(***************************************************************************)
(* What a call leaves in `out`.                                            *)
(***************************************************************************)
Output(kind, prompt, text) == [kind |-> kind, prompt |-> prompt, text |-> text]
NoOutput == Output("none", "", "")

(***************************************************************************)
(* SpecCache: the Cache on its own.                                        *)
(***************************************************************************)
Prompts == {"p1", "p2"}
Responses == {"r1", "r2"}
\* Prompts looked up: those inserted, one differing only in case, one never inserted.
LookupPrompts == Prompts \cup {"P1", "p0"}
InputSets == {S \in SUBSET (Prompts \X Responses) : Cardinality(S) = 2}

InitCache ==
    /\ pc = "api"
    /\ entries = <<>>
    /\ file = AbsentFile
    /\ language = ""
    /\ out = NoOutput
    /\ hist = <<>>
    /\ loadedFrom = NotLoaded
    /\ inputs \in InputSets
    /\ saved = None
    /\ count = NoCalls
    /\ runs = 0
    /\ ops = 0

\* cache.add_entry(prompt, response)
CallAddEntry(prompt, response) ==
    /\ pc = "api"
    /\ Len(hist) < MaxInserts
    /\ entries' = add_entry(entries, prompt, response)
    /\ hist' = Append(hist, CacheEntry(prompt, response))
    /\ out' = NoOutput
    /\ UNCHANGED <<pc, file, language, loadedFrom, inputs, saved, count, runs, ops>>

\* a lookup that refreshes the age of the entry it hits (an LRU cache)
CallLookupRefreshing(prompt) ==
    /\ pc = "api"
    /\ LET hits == {i \in 1..Len(entries) : entries[i].prompt = prompt}
           first == CHOOSE i \in hits : \A j \in hits : i <= j
       IN  IF hits = {}
           THEN /\ out' = Output("notfound", prompt, "")
                /\ entries' = entries
           ELSE /\ out' = Output("found", prompt, entries[first].response)
                /\ entries' = Append(SubSeq(entries, 1, first - 1)
                                        \o SubSeq(entries, first + 1, Len(entries)),
                                     entries[first])
    /\ UNCHANGED <<pc, file, language, hist, loadedFrom, inputs, saved, count, runs, ops>>

\* the lookup of the task handlers: find, and the response of the entry found
CallLookup(prompt) ==
    /\ pc = "api"
    /\ LET found == find(entries, prompt)
       IN  out' = IF IsSome(found)
                  THEN Output("found", prompt, Unwrap(found).response)
                  ELSE Output("notfound", prompt, "")
    /\ UNCHANGED <<pc, entries, file, language, hist, loadedFrom, inputs, saved, count, runs, ops>>

NextCache ==
    \/ \E e \in inputs : CallAddEntry(e[1], e[2])
    \/ \E p \in LookupPrompts : CallLookup(p)

SpecCache == InitCache /\ [][NextCache]_vars

(***************************************************************************)
(* Spec: the process.                                                      *)
(***************************************************************************)
\* ask_for_language: the languages accepted, whatever the case typed.
valid_languages == {"Python", "Rust", "JavaScript", "C++", "Java"}
\* What the user types at the language question.
TypedLanguages == {"Rust", "python", "Go"}
\* What get_code_input returns as code.
CodeInputs == {"fn main() {}", "def f(): pass"}
\* What the model endpoint answers.
ApiResponses == {"r1", "r2"}

\* str::contains
Contains(s, t) ==
    \E i \in 1..(Len(s) - Len(t) + 1) : SubSeq(s, i, i + Len(t) - 1) = t

extract_language_from_code(code_content) ==
    IF Contains(code_content, "#include") THEN "C++"
    ELSE IF Contains(code_content, "fn main()") THEN "Rust"
    ELSE IF Contains(code_content, "def ") THEN "Python"
    ELSE IF Contains(code_content, "function") \/ Contains(code_content, "console.log")
    THEN "JavaScript"
    ELSE IF Contains(code_content, "public static void main") THEN "Java"
    ELSE "Unknown"

check_language(code_content, specified_language) ==
    eq_ignore_ascii_case(extract_language_from_code(code_content), specified_language)

\* The prompts the four handlers format.
CompletionPrompt(lang, code) ==
    "You are working with " \o lang
        \o " code. Your task is to complete the given code:\n\n" \o code
ExplanationPrompt(lang, code) ==
    "You are working with " \o lang
        \o " code. Your task is to explain the following code:\n\n" \o code
RefactoringPrompt(lang, code) ==
    "You are working with " \o lang
        \o " code. Your task is to provide refactoring suggestions for the following code:\n\n"
        \o code
HelpPrompt(lang) ==
    "You are working with " \o lang
        \o " code. Please provide a brief explanation on how to use the features of this AI Code Assistant, including code completion, code explanation, and refactoring suggestions."

\* Result<String, _> of get_code_input and of send_api_request.
TextOk(t) == [ok |-> TRUE, text |-> t]
TextErr == [ok |-> FALSE, text |-> ""]
\* get_code_input: the code typed or read, or the error of reading code_input.txt.
CodeResults == {TextOk(c) : c \in CodeInputs} \cup {TextErr}
\* send_api_request: the first choice's content, or the error of the exchange.
ApiResults == {TextOk(r) : r \in ApiResponses} \cup {TextErr}

\* Cache files found on disk at the first run.
Label == <<"1", "2", "3", "4", "5", "6", "7", "8", "9", "10", "11", "12">>
JEntry(prompt, response) ==
    JObj(<< <<"prompt", JStr(prompt)>>, <<"response", JStr(response)>> >>)
StoredFile(n) ==
    TextFile(JObj(<< <<"entries",
                       JArr([i \in 1..n |-> JEntry("q" \o Label[i], "a" \o Label[i])])>> >>))
NotAListFile == TextFile(JObj(<< <<"entries", JStr("not-a-list")>> >>))
LegacyFile == TextFile(JObj(<< <<"a", JStr("1")>>, <<"b", JStr("2")>> >>))
InitialFiles ==
    { AbsentFile,
      UnreadableFile,
      TextFile(JInvalid),
      NotAListFile,
      LegacyFile,
      TextFile(JObj(<<>>)),
      TextFile(JObj(<< <<"a", JStr("1")>>, <<"a", JStr("2")>> >>)),
      TextFile(JObj(<< <<"a", JStr("1")>>, <<"b", JArr(<<>>)>> >>)),
      TextFile(JArr(<<JArr(<<JArr(<<JStr("a"), JStr("1")>>)>>)>>)),
      TextFile(JObj(<< <<"entries", JArr(<<JEntry("a", "1"), JEntry("a", "2")>>)>>,
                       <<"version", JStr("2")>> >>)),
      StoredFile(0),
      StoredFile(CACHE_LIMIT),
      StoredFile(CACHE_LIMIT + 1) }

Init ==
    /\ pc = "start"
    /\ entries = <<>>
    /\ file \in InitialFiles
    /\ language = ""
    /\ out = NoOutput
    /\ hist = <<>>
    /\ loadedFrom = NotLoaded
    /\ inputs = {}
    /\ saved = None
    /\ count = NoCalls
    /\ runs = 1
    /\ ops = 0

\* main, lines 59-65: dotenv, then API_ENDPOINT and API_KEY, each .expect()ed.
Main_Env(envSet) ==
    /\ pc = "start"
    /\ pc' = IF envSet THEN "ask" ELSE "panicked"
    /\ out' = IF envSet THEN NoOutput ELSE Output("panic", "", "not set in .env file")
    /\ UNCHANGED <<entries, file, language, hist, loadedFrom, inputs, saved, count, runs, ops>>

\* ask_for_language: asks again until the answer is a valid language.
ask_for_language(typed) ==
    /\ pc = "ask"
    /\ IF \E lang \in valid_languages : eq_ignore_ascii_case(lang, typed)
       THEN /\ language' = typed
            /\ pc' = "load"
            /\ out' = NoOutput
       ELSE /\ out' = Output("invalid language", "", typed)
            /\ UNCHANGED <<language, pc>>
    /\ UNCHANGED <<entries, file, hist, loadedFrom, inputs, saved, count, runs, ops>>

\* main, line 71: let mut cache = load_cache("api_cache.json")?;
Main_LoadCache ==
    /\ pc = "load"
    /\ \E res \in load_cache(file) :
          /\ pc' = IF res.ok THEN "menu" ELSE "failed"
          /\ entries' = res.cache
          /\ out' = IF res.ok THEN NoOutput ELSE Output("error", "", "load_cache")
    /\ loadedFrom' = file
    /\ hist' = <<>>
    /\ count' = [count EXCEPT !.loads = @ + 1]
    /\ UNCHANGED <<file, language, inputs, saved, runs, ops>>

\* An Err returned through `?` up to main: the process ends, nothing is saved.
Propagate(what) ==
    /\ pc' = "failed"
    /\ out' = Output("error", "", what)
    /\ UNCHANGED <<entries, hist>>

\* the handler without the cache check: it always asks and always inserts
LookAsideAlwaysInserts(prompt, api) ==
    /\ count' = [count EXCEPT !.lookups = @ + 1, !.calls = @ + 1]
    /\ IF api.ok
       THEN /\ entries' = add_entry(entries, prompt, api.text)
            /\ hist' = Append(hist, CacheEntry(prompt, api.text))
            /\ out' = Output("fresh", prompt, api.text)
            /\ pc' = "menu"
       ELSE Propagate("send_api_request")

\* the handler printing the error of the model call and going back to the menu
LookAsideSwallowsError(prompt, api) ==
    LET found == find(entries, prompt)
    IN  IF IsSome(found)
        THEN /\ out' = Output("cached", prompt, Unwrap(found).response)
             /\ pc' = "menu"
             /\ count' = [count EXCEPT !.lookups = @ + 1]
             /\ UNCHANGED <<entries, hist>>
        ELSE /\ count' = [count EXCEPT !.lookups = @ + 1, !.calls = @ + 1]
             /\ IF api.ok
                THEN /\ entries' = add_entry(entries, prompt, api.text)
                     /\ hist' = Append(hist, CacheEntry(prompt, api.text))
                     /\ out' = Output("fresh", prompt, api.text)
                     /\ pc' = "menu"
                ELSE /\ out' = Output("error", "", "send_api_request")
                     /\ pc' = "menu"
                     /\ UNCHANGED <<entries, hist>>

\* the handler asking the model before it looks in the cache
LookAsideCallsFirst(prompt, api) ==
    LET found == find(entries, prompt)
    IN  /\ count' = [count EXCEPT !.lookups = @ + 1, !.calls = @ + 1]
        /\ IF ~api.ok THEN Propagate("send_api_request")
           ELSE IF IsSome(found)
           THEN /\ out' = Output("cached", prompt, Unwrap(found).response)
                /\ pc' = "menu"
                /\ UNCHANGED <<entries, hist>>
           ELSE /\ entries' = add_entry(entries, prompt, api.text)
                /\ hist' = Append(hist, CacheEntry(prompt, api.text))
                /\ out' = Output("fresh", prompt, api.text)
                /\ pc' = "menu"

\* Lines 129-145, the same in the four handlers: print the cached response of
\* the first entry with this prompt, or else ask the model, add the answer to
\* the cache and print it.
LookAside(prompt, api) ==
    LET found == find(entries, prompt)
    IN  IF IsSome(found)
        THEN /\ out' = Output("cached", prompt, Unwrap(found).response)
             /\ pc' = "menu"
             /\ count' = [count EXCEPT !.lookups = @ + 1]
             /\ UNCHANGED <<entries, hist>>
        ELSE /\ count' = [count EXCEPT !.lookups = @ + 1, !.calls = @ + 1]
             /\ IF api.ok
                THEN /\ entries' = add_entry(entries, prompt, api.text)
                     /\ hist' = Append(hist, CacheEntry(prompt, api.text))
                     /\ out' = Output("fresh", prompt, api.text)
                     /\ pc' = "menu"
                ELSE Propagate("send_api_request")

\* the handler printing the abort message and going on without the return
CheckedNoReturn(code, prompt, api) ==
    IF ~code.ok THEN Propagate("get_code_input") /\ UNCHANGED count
    ELSE LookAside(prompt, api)

\* Lines 122-126, the same in the three handlers that take code.
Checked(code, prompt, api) ==
    IF ~code.ok THEN Propagate("get_code_input") /\ UNCHANGED count
    ELSE IF ~check_language(code.text, language)
    THEN /\ out' = Output("abort", "", "")
         /\ pc' = "menu"
         /\ UNCHANGED <<entries, hist, count>>
    ELSE LookAside(prompt, api)

Chosen ==
    /\ pc = "menu"
    /\ ops < MaxOps
    /\ ops' = ops + 1
    /\ UNCHANGED <<file, language, loadedFrom, inputs, saved, runs>>

\* menu choice "1"
code_completion(code, api) ==
    /\ Chosen
    /\ Checked(code, CompletionPrompt(language, code.text), api)

\* menu choice "2"
code_explanation(code, api) ==
    /\ Chosen
    /\ Checked(code, ExplanationPrompt(language, code.text), api)

\* menu choice "3"
refactoring_suggestions(code, api) ==
    /\ Chosen
    /\ Checked(code, RefactoringPrompt(language, code.text), api)

\* menu choice "4"
help_how_to_use(api) ==
    /\ Chosen
    /\ LookAside(HelpPrompt(language), api)

\* any other menu choice
Main_InvalidOption ==
    /\ Chosen
    /\ out' = Output("invalid option", "", "")
    /\ UNCHANGED <<pc, entries, hist, count>>

(***************************************************************************)
(* save_cache: fs::write of the pretty-printed cache.  It replaces the     *)
(* file; it can fail before touching the file, or after truncating it.     *)
(***************************************************************************)
WriteOutcomes == {"written", "not opened", "truncated"}

\* a save that opens the file for appending: what was there is kept
save_cache_appending(es, outcome) ==
    CASE outcome = "written" ->
             IF file.kind = "text" /\ IsSome(DeCache(file.json))
             THEN TextFile(to_string_pretty(Unwrap(DeCache(file.json)) \o es))
             ELSE TextFile(to_string_pretty(es))
      [] outcome = "not opened" -> file
      [] outcome = "truncated" -> TextFile(JInvalid)

save_cache(es, outcome) ==
    CASE outcome = "written" -> TextFile(to_string_pretty(es))
      [] outcome = "not opened" -> file
      [] outcome = "truncated" -> TextFile(JInvalid)

\* an exit that saves only a cache this run has added to
Main_ExitSavesIfChanged(outcome) ==
    /\ pc = "menu"
    /\ IF hist = <<>>
       THEN /\ pc' = "exited"
            /\ out' = Output("exit", "", "")
            /\ UNCHANGED <<file, saved, count>>
       ELSE /\ file' = save_cache(entries, outcome)
            /\ saved' = IF outcome = "written" THEN Some(entries) ELSE None
            /\ pc' = IF outcome = "written" THEN "exited" ELSE "failed"
            /\ out' = IF outcome = "written" THEN NoOutput
                                             ELSE Output("error", "", "save_cache")
            /\ count' = [count EXCEPT !.saves = @ + 1]
    /\ UNCHANGED <<entries, language, hist, loadedFrom, inputs, runs, ops>>

\* menu choice "5": break, then save_cache("api_cache.json", &cache)?
Main_Exit(outcome) ==
    /\ pc = "menu"
    /\ file' = save_cache(entries, outcome)
    /\ saved' = IF outcome = "written" THEN Some(entries) ELSE None
    /\ pc' = IF outcome = "written" THEN "exited" ELSE "failed"
    /\ out' = IF outcome = "written" THEN NoOutput ELSE Output("error", "", "save_cache")
    /\ count' = [count EXCEPT !.saves = @ + 1]
    /\ UNCHANGED <<entries, language, hist, loadedFrom, inputs, runs, ops>>

\* The program is started again, over the file the last run left.
Relaunch ==
    /\ pc \in {"exited", "failed", "panicked"}
    /\ runs < MaxRuns
    /\ runs' = runs + 1
    /\ pc' = "start"
    /\ entries' = <<>>
    /\ language' = ""
    /\ out' = NoOutput
    /\ hist' = <<>>
    /\ loadedFrom' = NotLoaded
    /\ count' = NoCalls
    /\ UNCHANGED <<file, inputs, saved, ops>>

Next ==
    \/ \E envSet \in BOOLEAN : Main_Env(envSet)
    \/ \E typed \in TypedLanguages : ask_for_language(typed)
    \/ Main_LoadCache
    \/ \E code \in CodeResults, api \in ApiResults : code_completion(code, api)
    \/ \E code \in CodeResults, api \in ApiResults : code_explanation(code, api)
    \/ \E code \in CodeResults, api \in ApiResults : refactoring_suggestions(code, api)
    \/ \E api \in ApiResults : help_how_to_use(api)
    \/ Main_InvalidOption
    \/ \E outcome \in WriteOutcomes : Main_Exit(outcome)
    \/ Relaunch

Spec == Init /\ [][Next]_vars

\* SpecSession: the process over a cache file that loads (no file, or a full
\* stored cache), for what the menu does once the run is at it.
SessionFiles == {AbsentFile, StoredFile(CACHE_LIMIT)}
InitSession == Init /\ file \in SessionFiles
SpecSession == InitSession /\ [][Next]_vars

(***************************************************************************)
(* Properties of the Cache on its own (SpecCache).                         *)
(***************************************************************************)
\* The inserts (positions of hist) whose entry has not been evicted.
Retained == (Len(hist) - Min(Len(hist), CACHE_LIMIT) + 1)..Len(hist)
IsLookup(o) == o.kind \in {"found", "notfound"}

\* C1 (bounded size): starting from an empty cache, after every add_entry call
\* of any sequence of calls the cache holds at most CACHE_LIMIT entries.
C1_BoundedSize == Len(entries) <= CACHE_LIMIT

\* C1's case: more than CACHE_LIMIT inserts were made and the cache is full.
C1_Witness == Len(hist) > CACHE_LIMIT /\ Len(entries) = CACHE_LIMIT

\* C2 (FIFO eviction): after n inserts into an empty cache the cache is exactly
\* the last min(n, CACHE_LIMIT) inserted entries, in insertion order.
C2_FifoEviction ==
    entries = SubSeq(hist, Len(hist) - Min(Len(hist), CACHE_LIMIT) + 1, Len(hist))

\* C2's case: CACHE_LIMIT + 1 inserts, the cache holds #2..#(CACHE_LIMIT+1) and
\* entry #1 is absent.
C2_Witness ==
    /\ Len(hist) = CACHE_LIMIT + 1
    /\ entries = SubSeq(hist, 2, CACHE_LIMIT + 1)
    /\ \A k \in 1..Len(entries) : entries[k] # hist[1]

\* C4 (lookup correctness, as claimed): a lookup of prompt p returns the
\* response r of every insert (p, r) whose entry has not been evicted.
C4_LookupReturnsInserted ==
    IsLookup(out) =>
        \A i \in Retained :
            hist[i].prompt = out.prompt =>
                out.kind = "found" /\ out.text = hist[i].response

\* C5 (lookup miss): in a cache that started empty, a lookup of a prompt never
\* inserted, or whose entries have all been evicted, returns "not found"; a
\* lookup returns a response only if an entry now in the cache has exactly that
\* prompt, and then it is that entry's response.
C5_LookupMiss ==
    IsLookup(out) =>
        /\ (\A i \in 1..Len(hist) : hist[i].prompt # out.prompt) => out.kind = "notfound"
        /\ (\A i \in Retained : hist[i].prompt # out.prompt) => out.kind = "notfound"
        /\ out.kind = "found" =>
               \E k \in 1..Len(entries) :
                   entries[k].prompt = out.prompt /\ entries[k].response = out.text

\* C5's case: the looked-up prompt was inserted once, that entry has been
\* evicted, and the lookup misses.
C5_Witness ==
    /\ out.kind = "notfound"
    /\ Cardinality({i \in 1..Len(hist) : hist[i].prompt = out.prompt}) = 1
    /\ \A i \in Retained : hist[i].prompt # out.prompt

\* C6 (lookup does not reorder): a lookup, hit or miss, leaves the entry
\* sequence as it was, and an insert at capacity evicts the entry inserted
\* earliest among those held (position 0), whatever was looked up before.
C6_LookupDoesNotReorder ==
    [][/\ (hist' = hist /\ IsLookup(out')) => entries' = entries
       /\ (Len(hist') = Len(hist) + 1 /\ Len(entries) >= CACHE_LIMIT) =>
              /\ entries[1] = hist[Len(hist) - CACHE_LIMIT + 1]
              /\ entries' = Append(Tail(entries), hist'[Len(hist')])]_vars

\* C6's case: a full cache whose oldest entry was just hit by a lookup, after
\* an eviction has already happened.
C6_Witness ==
    /\ out.kind = "found"
    /\ Len(hist) > CACHE_LIMIT
    /\ Len(entries) = CACHE_LIMIT
    /\ entries[1].prompt = out.prompt
    /\ \E k \in 2..Len(entries) : entries[k].prompt # out.prompt

(***************************************************************************)
(* Properties of the process (Spec).                                       *)
(***************************************************************************)
\* load_cache returned Err in this run: the error went up through main.
LoadFailed == pc = "failed" /\ out = Output("error", "", "load_cache")
\* Text that reads neither as a Cache nor as a HashMap.
Unparseable(f) ==
    f.kind = "text" /\ ~IsSome(DeCache(f.json)) /\ ~IsSome(DeHashMap(f.json))

\* C3 (insert length guarantee, as claimed): whatever cache load returned,
\* an insert leaves min(previous length + 1, CACHE_LIMIT) entries.
C3_InsertLengthGuarantee ==
    [][Len(hist') = Len(hist) + 1 =>
           Len(entries') = Min(Len(entries) + 1, CACHE_LIMIT)]_vars

\* C7 (round-trip): a load of the file a successful save wrote succeeds and
\* returns the entries that were saved, in the same order, whatever the file
\* held before the save.
C7_RoundTrip ==
    (IsSome(saved) /\ loadedFrom # NotLoaded /\ hist = <<>>) =>
        /\ ~LoadFailed
        /\ entries = Unwrap(saved)
        /\ file = TextFile(to_string_pretty(Unwrap(saved)))

\* C7's case: a second run has loaded what the first run saved over an older
\* file, a cache with a repeated prompt.
C7_Witness ==
    /\ runs = 2
    /\ pc = "menu"
    /\ IsSome(saved)
    /\ loadedFrom = file
    /\ entries = Unwrap(saved)
    /\ \E i, k \in 1..Len(entries) : i # k /\ entries[i].prompt = entries[k].prompt

\* C8 (malformed-file load, as claimed): load of {"entries": "not-a-list"}
\* returns an error.
C8_NotAListIsError == loadedFrom = NotAListFile => LoadFailed

\* C8 (as the code has it): {"entries": "not-a-list"} does not read as a Cache
\* but reads as a legacy map of one pair, so load succeeds with the single
\* entry (prompt "entries", response "not-a-list").
C8_NotAListIsLegacy ==
    (loadedFrom = NotAListFile /\ hist = <<>>) =>
        /\ ~LoadFailed
        /\ entries = <<CacheEntry("entries", "not-a-list")>>

\* C8's case: the process is at the menu after loading that file.
C8_Witness ==
    /\ loadedFrom = NotAListFile
    /\ pc = "menu"
    /\ Len(entries) = 1

\* C9 (load failure is never silent, as claimed): a file that exists and cannot
\* be read, or reads in neither format, makes load return an error.
C9_LoadFailureNeverSilent ==
    (loadedFrom.kind = "unreadable" \/ Unparseable(loadedFrom)) => LoadFailed

\* C10 (absent-file load): with no file at the path load returns an empty cache
\* and no error; the session goes on from empty: the cache is what this run
\* inserted, and a lookup hits only a prompt inserted in this run.
C10_AbsentFileLoad ==
    loadedFrom = AbsentFile =>
        /\ ~LoadFailed
        /\ entries = SubSeq(hist, Len(hist) - Min(Len(hist), CACHE_LIMIT) + 1, Len(hist))
        /\ out.kind = "cached" => \E i \in 1..Len(hist) : hist[i].prompt = out.prompt

\* C10's case: after an absent-file load, a first request missed and was
\* inserted, and the same request then hit.
C10_Witness ==
    /\ loadedFrom = AbsentFile
    /\ pc = "menu"
    /\ Len(hist) = 1
    /\ entries = hist
    /\ out.kind = "cached"

\* A file in the legacy format: an object whose values are all strings and
\* that does not read as a Cache.
IsLegacy(f) ==
    /\ f.kind = "text"
    /\ Tag(f.json) = "obj"
    /\ \A i \in 1..Len(f.json[2]) : Tag(f.json[2][i][2]) = "str"
    /\ ~IsSome(DeCache(f.json))
\* The pair <<key, value>> is written in the object of file f.
HasPair(f, key, value) ==
    \E i \in 1..Len(f.json[2]) : f.json[2][i] = <<key, JStr(value)>>

\* C11 (legacy migration): load of a legacy-format file succeeds; every entry
\* of the cache is a pair of the file, and every key of the file is the prompt
\* of exactly one entry; hence one entry (k, v) per pair k -> v of a mapping,
\* in any order.
C11_LegacyMigration ==
    (IsLegacy(loadedFrom) /\ hist = <<>>) =>
        /\ ~LoadFailed
        /\ \A k \in 1..Len(entries) :
               HasPair(loadedFrom, entries[k].prompt, entries[k].response)
        /\ \A i \in 1..Len(loadedFrom.json[2]) :
               Cardinality({k \in 1..Len(entries) :
                               entries[k].prompt = loadedFrom.json[2][i][1]}) = 1

\* C11's case: {"a": "1", "b": "2"} was loaded as (b,2), (a,1): the two pairs,
\* in the order opposite to the file's.
C11_Witness ==
    /\ loadedFrom = LegacyFile
    /\ pc = "menu"
    /\ entries = <<CacheEntry("b", "2"), CacheEntry("a", "1")>>

\* Text in the current format: the object {"entries": [...]} of
\* {"prompt": string, "response": string} objects, and nothing else.
IsCurrentFormat(f) ==
    /\ f.kind = "text"
    /\ Tag(f.json) = "obj"
    /\ Len(f.json[2]) = 1
    /\ f.json[2][1][1] = "entries"
    /\ Tag(f.json[2][1][2]) = "arr"
    /\ \A i \in 1..Len(f.json[2][1][2][2]) :
          LET e == f.json[2][1][2][2][i]
          IN  /\ Tag(e) = "obj"
              /\ Len(e[2]) = 2
              /\ e[2][1][1] = "prompt" /\ Tag(e[2][1][2]) = "str"
              /\ e[2][2][1] = "response" /\ Tag(e[2][2][2]) = "str"

\* C12 (legacy format is never written back): the file a successful save left
\* is in the current format and reads as a Cache, whatever format the cache was
\* loaded from; so a load in a later run that follows a successful save reads
\* a file that passes the current-format parse, never the legacy fallback.
C12_NeverWritesLegacy ==
    IsSome(saved) =>
        /\ IsCurrentFormat(file)
        /\ IsSome(DeCache(file.json))
        /\ ~IsLegacy(file)
        /\ (pc # "exited" /\ loadedFrom # NotLoaded) =>
               /\ loadedFrom = file
               /\ IsSome(DeCache(loadedFrom.json))

\* C12's case: the first run loaded the legacy file {"a": "1", "b": "2"} and
\* saved; the second run has loaded the file that save wrote.
C12_Witness ==
    /\ runs = 2
    /\ pc = "menu"
    /\ IsSome(saved)
    /\ loadedFrom = TextFile(to_string_pretty(entries))
    /\ {entries[k] : k \in 1..Len(entries)} = {CacheEntry("a", "1"), CacheEntry("b", "2")}

\* The run is over: main returned, or panicked.
RunEnded == pc \in {"exited", "failed", "panicked"}
\* save_cache returned Err.
SaveFailed == pc = "failed" /\ out = Output("error", "", "save_cache")
\* The parts of the lifecycle that do not depend on how the run started: load
\* comes before any lookup or insert, no save while the menu loop runs, and a
\* run ended by menu choice 5 saved once, after its last lookup or insert; a
\* save that succeeded wrote the cache as it then was.
LifecycleOfMenu ==
    /\ (hist # <<>> \/ count.lookups > 0) => count.loads = 1
    /\ pc = "menu" => count.saves = 0
    /\ count.saves = 1 <=> (pc = "exited" \/ SaveFailed)
    /\ count.saves <= 1
    /\ pc = "exited" =>
           /\ saved = Some(entries)
           /\ file = TextFile(to_string_pretty(entries))

\* C13 (persistence lifecycle, as claimed): every process run loads exactly
\* once, before any lookup or insert; no save while the menu loop runs; a run
\* ended by menu choice 5 saves exactly once, the cache as it is then.
C13_LifecycleEveryRun ==
    /\ RunEnded => count.loads = 1
    /\ LifecycleOfMenu

\* C13 (as the code has it): a run that gets past startup (API_ENDPOINT and
\* API_KEY set, a valid language entered) loads exactly once, and a run that
\* panics at startup never loads; the rest as claimed.
C13_LifecyclePastStartup ==
    /\ count.loads <= 1
    /\ pc \in {"menu", "exited", "failed"} => count.loads = 1
    /\ pc \in {"start", "ask", "load", "panicked"} => count = NoCalls
    /\ LifecycleOfMenu

\* C13's case: a run that loaded, looked up twice, inserted, and ended by menu
\* choice 5 with one save.
C13_Witness ==
    /\ pc = "exited"
    /\ count.loads = 1
    /\ count.saves = 1
    /\ count.lookups = 2
    /\ Len(hist) >= 1

\* send_api_request returned Err.
ApiFailed == pc = "failed" /\ out = Output("error", "", "send_api_request")
ApiFailedNext == pc' = "failed" /\ out' = Output("error", "", "send_api_request")

\* C14 (look-aside protocol): a menu choice that finds its prompt in the cache
\* makes no model call and leaves the cache unchanged; one that does not find
\* it makes exactly one model call and, if the call succeeds, appends the one
\* entry (prompt, response) through add_entry; no entry is added, and no model
\* call made, in any other way.
C14_LookAside ==
    [][/\ ops' = ops + 1 =>
            /\ out'.kind = "cached" =>
                   /\ IsSome(find(entries, out'.prompt))
                   /\ out'.text = Unwrap(find(entries, out'.prompt)).response
                   /\ count'.calls = count.calls
                   /\ entries' = entries
            /\ out'.kind = "fresh" =>
                   /\ ~IsSome(find(entries, out'.prompt))
                   /\ count'.calls = count.calls + 1
                   /\ hist' = Append(hist, CacheEntry(out'.prompt, out'.text))
                   /\ entries' = Append(IF Len(entries) >= CACHE_LIMIT
                                        THEN Tail(entries) ELSE entries,
                                        CacheEntry(out'.prompt, out'.text))
            /\ ApiFailedNext => count'.calls = count.calls + 1 /\ entries' = entries
            /\ (out'.kind \notin {"cached", "fresh"} /\ ~ApiFailedNext) =>
                   count'.calls = count.calls /\ entries' = entries
       /\ (pc = "menu" /\ entries' # entries) => (ops' = ops + 1 /\ out'.kind = "fresh")
       /\ count'.calls > count.calls =>
              (ops' = ops + 1 /\ (out'.kind = "fresh" \/ ApiFailedNext))]_vars

\* C14's case: a request missed, the model was called once and its answer
\* inserted; the same request then hit, with no second call.
C14_Witness ==
    /\ out.kind = "cached"
    /\ count.lookups = 2
    /\ count.calls = 1
    /\ Len(hist) = 1
    /\ hist[1] = CacheEntry(out.prompt, out.text)

(***************************************************************************)
(* More properties of the Cache on its own (SpecCache).                    *)
(***************************************************************************)
\* The retained inserts of the prompt last looked up.
RetainedOfPrompt == {i \in Retained : hist[i].prompt = out.prompt}

\* C15 (duplicate-prompt staleness): add_entry keeps every entry of a prompt,
\* and a lookup returns the response of the oldest insert of the prompt that
\* has not been evicted: the older r1 while both are held, the newer r2 only
\* once the older entry is gone.
C15_DuplicatePromptStaleness ==
    /\ Len(entries) = Min(Len(hist), CACHE_LIMIT)
    /\ (IsLookup(out) /\ RetainedOfPrompt # {}) =>
           /\ out.kind = "found"
           /\ \A i \in RetainedOfPrompt :
                  (\A k \in RetainedOfPrompt : i <= k) => out.text = hist[i].response

\* C15's case: a prompt was inserted with one response and later with another,
\* both entries are held, and the lookup returned the older response.
C15_Witness ==
    /\ out.kind = "found"
    /\ \E i, k \in RetainedOfPrompt :
          /\ i < k
          /\ hist[i].response # hist[k].response
          /\ out.text = hist[i].response

(***************************************************************************)
(* More properties of the process (Spec).                                  *)
(***************************************************************************)
DistinctPrompts(es) ==
    \A i, k \in 1..Len(es) : i # k => es[i].prompt # es[k].prompt
\* Whatever load_cache returned in this run, its prompts were pairwise distinct.
LoadedDistinct ==
    /\ loadedFrom # NotLoaded
    /\ \A res \in load_cache(loadedFrom) : DistinctPrompts(res.cache)

\* C16 (no duplicates at session level): a cache loaded from an absent file or
\* a legacy file has pairwise distinct prompts; and when the loaded cache has
\* pairwise distinct prompts, so has the cache in every later state of the
\* run, and a lookup that hits returns the response of the only entry with
\* the prompt, which is the latest one this run inserted for it, if any.
\* (The second implication is written consequence first, as B \/ ~A.)
C16_NoDuplicatesInSession ==
    /\ (loadedFrom = AbsentFile \/ IsLegacy(loadedFrom)) => LoadedDistinct
    /\ \/ /\ DistinctPrompts(entries)
          /\ out.kind = "cached" =>
                 /\ \E k \in 1..Len(entries) : entries[k] = CacheEntry(out.prompt, out.text)
                 /\ \A i \in 1..Len(hist) :
                        (/\ hist[i].prompt = out.prompt
                         /\ \A k \in (i + 1)..Len(hist) : hist[k].prompt # out.prompt)
                            => out.text = hist[i].response
       \/ ~LoadedDistinct

\* C16's case: a full cache of distinct prompts was loaded, a request missed
\* and was inserted (evicting the oldest), and the same request then hit.
C16_Witness ==
    /\ loadedFrom = StoredFile(CACHE_LIMIT)
    /\ Len(entries) = CACHE_LIMIT
    /\ Len(hist) = 1
    /\ out.kind = "cached"
    /\ hist[1] = CacheEntry(out.prompt, out.text)

\* C17 (failed model call): a model call that returns an error inserts nothing
\* and ends the run with the error; no save is made, so the file is as the run
\* found it and nothing the run inserted is on disk; the run does nothing more.
C17_FailedModelCall ==
    [][/\ (count'.calls = count.calls + 1 /\ hist' = hist) =>
              /\ ApiFailedNext
              /\ entries' = entries
       /\ ApiFailedNext =>
              /\ count'.saves = 0
              /\ file' = file
              /\ file' = loadedFrom'
              /\ saved' = saved
       /\ ApiFailed => (pc' = "start" /\ file' = file /\ saved' = saved)]_vars

\* C17's case: the run inserted an entry, then a model call failed: the run is
\* over, unsaved, and the file is still the one it loaded.
C17_Witness ==
    /\ ApiFailed
    /\ Len(hist) = 1
    /\ count.calls = 2
    /\ count.saves = 0
    /\ file = loadedFrom

\* A menu choice of completion, explanation or refactoring whose code is read
\* and is not detected as the session's declared language.
MismatchChosen ==
    /\ pc = "menu"
    /\ \E code \in CodeResults :
          /\ code.ok
          /\ ~check_language(code.text, language)
          /\ \E api \in ApiResults :
                \/ code_completion(code, api)
                \/ code_explanation(code, api)
                \/ refactoring_suggestions(code, api)
HelpChosen == \E api \in ApiResults : help_how_to_use(api)

\* C18 (language-mismatch abort): completion, explanation and refactoring on
\* code whose detected language is not the declared one go back to the menu
\* with no cache lookup, no model call and the cache unchanged; the help task
\* checks no language: it always goes to its lookup, whatever the language.
C18_LanguageMismatchAbort ==
    [][/\ MismatchChosen =>
              /\ out' = Output("abort", "", "")
              /\ pc' = "menu"
              /\ count' = count
              /\ entries' = entries
              /\ hist' = hist
              /\ file' = file
       /\ out'.kind = "abort" => (count' = count /\ entries' = entries)
       /\ HelpChosen =>
              /\ out'.kind # "abort"
              /\ out'.kind \in {"cached", "fresh", "error"}
              /\ count'.lookups = count.lookups + 1]_vars

\* C18's case: after a fresh answer was cached, a menu choice aborted on the
\* language mismatch: the run is back at the menu with its one lookup, one
\* model call and one entry added.
C18_Witness ==
    /\ out = Output("abort", "", "")
    /\ pc = "menu"
    /\ Len(hist) = 1
    /\ count.lookups = 1
    /\ count.calls = 1

====
